---------------------------- MODULE Spec2Model ----------------------------
(***************************************************************************)
(* netcast: the component stack, the descriptors and the Model of          *)
(* netcast/model.py, with combined_getattr of netcast/tools/inspection.py. *)
(*                                                                         *)
(* Python values are modelled as follows.  A dict is a function whose      *)
(* DOMAIN is its key set.  A list is a sequence; Python's 0-based and      *)
(* negative indices are translated by the List* operators.  Objects        *)
(* (serializer instances) live in `heap`, indexed by their identity.       *)
(***************************************************************************)
EXTENDS Integers, Sequences, FiniteSets, TLC

VARIABLES
    heap,        \* object identity -> [name, default, settings, taken]
    components,  \* stack -> ComponentStack._components
    lock,        \* stack -> ComponentStack._lock, an RLock: [owner, count]
    live,        \* stack -> FALSE once __del__ has run
    pc,          \* thread -> the line of model.py the thread is at
    frame,       \* thread -> the locals of the call the thread is in
    tret,        \* how the last stack call to end ended, and in which thread
    desc_value,  \* ComponentDescriptor -> ComponentDescriptor._value
    instances,   \* Model instance -> [made, settings]
    ret,         \* how the last Model call ended
    classes,     \* class name -> [kind, bases, attrs, has_total, total]
    features,    \* Plugin.__features__: attribute name -> feature
    feats,       \* the _Feature objects constructed so far
    pret         \* how the last call of plugin.py ended

vars == <<heap, components, lock, live, pc, frame, tret, desc_value, instances, ret,
          classes, features, feats, pret>>

stackVars == <<lock, live, pc, frame, tret>>
modelVars == <<desc_value, instances>>
pluginVars == <<classes, features, feats, pret>>

-----------------------------------------------------------------------------
(* Bounds *)

MaxVersion == 3
MaxObjects == 3
MaxLen == 2
MaxHold == 2

-----------------------------------------------------------------------------
(* Sentinels and values *)

MISSING == "MISSING"
NoOwner == "NoOwner"
NoName == "NoName"

\* Python's None where an object is expected; object identities are 1, 2, ...
None == 0

\* netcast.constants.LEAST / GREATEST: below / above every version number.
LEAST == 0
GREATEST == MaxVersion + 1
Versions == 1..MaxVersion

EmptyDict == [k \in {} |-> None]

\* dict.get(key, default)
DictGet(d, key, default) == IF key \in DOMAIN d THEN d[key] ELSE default

\* {**a, **b}
DictMerge(a, b) ==
    [k \in DOMAIN a \cup DOMAIN b |-> IF k \in DOMAIN b THEN b[k] ELSE a[k]]

\* every dict with keys among `keys` and values among `vals`
Dicts(keys, vals) == UNION {[d -> vals] : d \in SUBSET keys}

-----------------------------------------------------------------------------
(* Python list operations on a sequence *)

IndexError == "IndexError"
ValueError == "ValueError"
KeyError == "KeyError"
AttributeError == "AttributeError"
TypeError == "TypeError"
NoError == "NoError"

\* whether list[index] exists
ListInRange(seq, index) == -Len(seq) <= index /\ index < Len(seq)

\* the 1-based position of list[index], for an index in range
ListPos(seq, index) == IF index < 0 THEN index + Len(seq) + 1 ELSE index + 1

\* list.insert(idx, x): the index is clamped to 0..len
ListInsert(seq, idx, x) ==
    LET n == Len(seq)
        i == IF idx < 0 THEN (IF idx + n < 0 THEN 0 ELSE idx + n)
             ELSE (IF idx > n THEN n ELSE idx)
    IN SubSeq(seq, 1, i) \o <<x>> \o SubSeq(seq, i + 1, n)

\* the list after list.pop(index), for an index in range
ListRemove(seq, index) ==
    LET p == ListPos(seq, index)
    IN SubSeq(seq, 1, p - 1) \o SubSeq(seq, p + 1, Len(seq))

\* list.index(x): the 0-based index of the first x, for an x in the list
ListIndex(seq, x) ==
    (CHOOSE p \in 1..Len(seq) :
        seq[p] = x /\ \A q \in 1..(p - 1) : seq[q] # x) - 1

ListHas(seq, x) == \E p \in 1..Len(seq) : seq[p] = x

-----------------------------------------------------------------------------
(* Heap objects: serializer instances and Model classes used as components *)

Component(name, default, settings, taken) ==
    [kind |-> "serializer", name |-> name, default |-> default,
     settings |-> settings, taken |-> taken]

\* the identity of the next object created
Fresh(h) == Cardinality(DOMAIN h) + 1

-----------------------------------------------------------------------------
(* combined_getattr(obj, "settings[<item>]", default) on a heap object *)

onefold_combined_getattr(obj, item, default) ==
    DictGet(obj.settings, item, default)

combined_getattr(obj, item, default) ==
    onefold_combined_getattr(obj, item, default)

-----------------------------------------------------------------------------
(* VersionAwareComponentStack.predicate_version *)

predicate_version_strict(component, settings) ==
    LET version == DictGet(settings, "version", GREATEST)
        since_version == combined_getattr(component, "version_added", LEAST)
        until_version == combined_getattr(component, "version_removed", GREATEST)
    IN since_version < version /\ until_version > version

predicate_version(component, settings) ==
    LET version == DictGet(settings, "version", GREATEST)
        since_version == combined_getattr(component, "version_added", LEAST)
        until_version == combined_getattr(component, "version_removed", GREATEST)
        introduced == since_version <= version
        up_to_date == until_version >= version
    IN introduced /\ up_to_date

predicate(component, settings) == predicate_version(component, settings)

\* ComponentStack.get's list access: the object at index, or None
BaseGet(seq, index) ==
    IF ListInRange(seq, index) THEN seq[ListPos(seq, index)] ELSE None

\* FilteredComponentStack.get, after the base get returned obj
FilteredGet(h, obj, settings) ==
    IF obj = None THEN None
    ELSE IF ~predicate(h[obj], settings) THEN None
    ELSE obj

\* ComponentStack.get_matching_components: name -> component, last wins
RECURSIVE MatchFrom(_, _, _, _)
MatchFrom(h, seq, settings, idx) ==
    IF idx >= Len(seq) THEN EmptyDict
    ELSE LET component == FilteredGet(h, BaseGet(seq, idx), settings)
             rest == MatchFrom(h, seq, settings, idx + 1)
         IN IF component = None THEN rest
            ELSE DictMerge((h[component].name :> component), rest)

get_matching_components(h, seq, settings) == MatchFrom(h, seq, settings, 0)

-----------------------------------------------------------------------------
(* ComponentStack.add: transform_component, then push *)

\* Serializer.__call__(**settings): an independent copy of the serializer,
\* configured with the settings; the settings' name is its name when given.
SerializerCall(obj, settings) ==
    [kind |-> "serializer",
     name |-> IF DictGet(settings, "name", NoName) # NoName
              THEN settings["name"] ELSE obj.name,
     default |-> obj.default,
     settings |-> DictMerge(obj.settings,
                            [k \in DOMAIN settings \ {"name"} |-> settings[k]]),
     taken |-> FALSE]

\* a serializer type called with the settings: a new instance
SerializerNew(settings) ==
    [kind |-> "serializer", name |-> DictGet(settings, "name", NoName),
     default |-> MISSING,
     settings |-> [k \in DOMAIN settings \ {"name"} |-> settings[k]],
     taken |-> FALSE]

\* transform_serializer: [heap, obj]; a taken component is returned as it is
transform_serializer(h, component, settings) ==
    IF h[component].taken
    THEN [heap |-> h, obj |-> component]
    ELSE LET new == Fresh(h)
         IN [heap |-> h @@ (new :> [SerializerCall(h[component], settings)
                                       EXCEPT !.taken = TRUE]),
             obj |-> new]

\* transform_component: arg is [kind, obj], kind one of "type" (a serializer
\* type), "submodel" (a Model class) and "instance" (a serializer instance)
transform_component(h, arg, settings, default_name) ==
    LET named == IF "name" \in DOMAIN settings THEN settings
                 ELSE settings @@ ("name" :> default_name)
    IN CASE arg.kind = "type" ->
              [heap |-> h @@ (Fresh(h) :> SerializerNew(named)), obj |-> Fresh(h)]
         [] arg.kind = "submodel" -> [heap |-> h, obj |-> arg.obj]
         [] OTHER -> transform_serializer(h, arg.obj, named)

\* whether transform_component creates an object
Allocates(h, arg) ==
    arg.kind = "type" \/ (arg.kind = "instance" /\ ~h[arg.obj].taken)

-----------------------------------------------------------------------------
(* The Model class M of the scenario, as Model.__init_subclass__ compiles it *)
(*     class M(Model):                                                       *)
(*         id = ident = Int(default=0)                                       *)
(*         name = String(version_added=2)                                    *)

ModelStack == "M"

\* the serializer instances the class body creates
DeclaredHeap ==
    (1 :> Component(NoName, "0", EmptyDict, FALSE))
    @@ (2 :> Component(NoName, MISSING, ("version_added" :> 2), FALSE))

\* inspect.getmembers(cls, is_component): sorted by attribute name
Members ==
    <<[attr |-> "id", obj |-> 1], [attr |-> "ident", obj |-> 1],
      [attr |-> "name", obj |-> 2]>>

NoDescriptor == "NoDescriptor"

\* the loop of __init_subclass__ from member i on; cls is the class so far:
\* heap, stack, descriptors (cls._descriptors), order (its key order),
\* component (descriptor -> its component), attrs (the class attributes
\* set: attribute -> [kind, descriptor]) and seen
RECURSIVE InitSubclassFrom(_, _)
InitSubclassFrom(cls, i) ==
    IF i > Len(Members) THEN cls
    ELSE LET attr_name == Members[i].attr
             component == Members[i].obj
             seen_descriptor == DictGet(cls.seen, component, NoDescriptor)
             added == transform_component(cls.heap,
                          [kind |-> "instance", obj |-> component],
                          EmptyDict, attr_name)
             descriptor == IF seen_descriptor = NoDescriptor
                           THEN attr_name ELSE seen_descriptor
             next ==
                IF seen_descriptor = NoDescriptor
                THEN [cls EXCEPT
                        !.heap = added.heap,
                        !.stack = Append(cls.stack, added.obj),
                        !.component = (descriptor :> added.obj) @@ cls.component,
                        !.attrs = (added.heap[added.obj].name :>
                                     [kind |-> "component", descriptor |-> descriptor])
                                  @@ cls.attrs]
                ELSE [cls EXCEPT
                        !.attrs = (attr_name :>
                                     [kind |-> "alias", descriptor |-> descriptor])
                                  @@ cls.attrs]
         IN InitSubclassFrom(
                [next EXCEPT
                    !.descriptors = (attr_name :> descriptor) @@ next.descriptors,
                    !.order = Append(next.order, attr_name),
                    !.seen = (component :> descriptor) @@ next.seen],
                i + 1)

ClassM ==
    InitSubclassFrom(
        [heap |-> DeclaredHeap, stack |-> <<>>, descriptors |-> EmptyDict,
         order |-> <<>>, component |-> EmptyDict, attrs |-> EmptyDict,
         seen |-> EmptyDict], 1)

\* cls._descriptors and the descriptor objects
_descriptors == ClassM.descriptors
Descriptors == DOMAIN ClassM.component

-----------------------------------------------------------------------------
(* Descriptors *)

\* ComponentDescriptor.__set__(instance, value): self._value = value
ComponentDescriptor_set(dv, descriptor, instance, value) ==
    [dv EXCEPT ![descriptor] = value]

\* ComponentDescriptor.__get__(instance, owner): self.value
ComponentDescriptor_get(dv, descriptor, instance) == dv[descriptor]

\* getattr(component, "value") on a serializer: the Component of the data
\* model has name, default, version bounds and the owned flag, and no value
SerializerValueAttr(component) == AttributeError

\* AliasDescriptor.__get__(instance, owner): self.value, which
\* _BaseDescriptor.__getattr__ looks up on self.component, the component of
\* the descriptor linked to
AliasDescriptor_get(dv, descriptor, instance) ==
    SerializerValueAttr(ClassM.component[descriptor])

-----------------------------------------------------------------------------
(* Model *)

\* Model.__setitem__: [dv, raised]
Model_setitem(dv, instance, key, value) ==
    IF key \notin DOMAIN _descriptors
    THEN [dv |-> dv, raised |-> KeyError]
    ELSE [dv |-> ComponentDescriptor_set(dv, _descriptors[key], instance, value),
          raised |-> NoError]

\* Model.__getitem__: the value, or KeyError
Model_getitem(dv, instance, key) ==
    IF key \notin DOMAIN _descriptors
    THEN [value |-> MISSING, raised |-> KeyError]
    ELSE [value |-> ComponentDescriptor_get(dv, _descriptors[key], instance),
          raised |-> NoError]

\* Model.__setattr__: a descriptor's name goes to the descriptor, any other
\* name to the instance's own attributes, which hold no field
Model_setattr(dv, instance, key, value) ==
    IF key \in DOMAIN _descriptors
    THEN ComponentDescriptor_set(dv, _descriptors[key], instance, value)
    ELSE dv

\* instance.<key> for an attribute the class body set: the descriptor's __get__
Model_getattr(dv, instance, key) ==
    LET attr == ClassM.attrs[key]
    IN IF attr.kind = "component"
       THEN [value |-> ComponentDescriptor_get(dv, attr.descriptor, instance),
             raised |-> NoError]
       ELSE LET got == AliasDescriptor_get(dv, attr.descriptor, instance)
            IN IF got = AttributeError
               THEN [value |-> MISSING, raised |-> AttributeError]
               ELSE [value |-> got, raised |-> NoError]

\* Model.set_state over state.items() from pair i on: [dv, raised]
RECURSIVE set_state_unguarded(_, _, _, _)
set_state_unguarded(dv, instance, items, i) ==
    IF i > Len(items) THEN [dv |-> dv, raised |-> NoError]
    ELSE LET set == Model_setitem(dv, instance, items[i].key, items[i].value)
         IN IF set.raised # NoError THEN [dv |-> dv, raised |-> set.raised]
            ELSE set_state_unguarded(set.dv, instance, items, i + 1)

RECURSIVE set_state_from(_, _, _, _)
set_state_from(dv, instance, items, i) ==
    IF i > Len(items) THEN [dv |-> dv, raised |-> NoError]
    ELSE set_state_from(
             Model_setitem(dv, instance, items[i].key, items[i].value).dv,
             instance, items, i + 1)

set_state(dv, instance, items) == set_state_from(dv, instance, items, 1)

\* load_state_from_sequence: dict(zip(self._descriptors, load)), as items
load_state_from_sequence(load) ==
    LET n == IF Len(load) < Len(ClassM.order) THEN Len(load) ELSE Len(ClassM.order)
    IN [i \in 1..n |-> [key |-> ClassM.order[i], value |-> load[i]]]

\* Model.get_matching_components(**settings): the instance's settings win
Model_get_matching_components(h, stack, own, settings) ==
    get_matching_components(h, stack, DictMerge(settings, own))

\* Model.get_matching_descriptors: the names of _descriptors, in its order,
\* that name a matching component
get_matching_descriptors(h, stack, own, settings) ==
    LET namespace == DOMAIN Model_get_matching_components(h, stack, own, settings)
    IN SelectSeq(ClassM.order, LAMBDA name : name \in namespace)

\* the loop of get_state from name i on: [state, raised, field]
RECURSIVE get_state_from(_, _, _, _, _)
get_state_from(h, dv, names, fill_value, i) ==
    IF i > Len(names) THEN [state |-> EmptyDict, raised |-> NoError, field |-> "none"]
    ELSE LET name == names[i]
             desc == _descriptors[name]
             stored == dv[desc]
             component == h[ClassM.component[desc]]
             value == IF stored # MISSING THEN stored
                      ELSE IF component.default # MISSING THEN component.default
                      ELSE fill_value
             rest == get_state_from(h, dv, names, fill_value, i + 1)
         IN IF value = MISSING
            THEN [state |-> EmptyDict, raised |-> ValueError, field |-> component.name]
            ELSE IF rest.raised # NoError THEN rest
            ELSE [rest EXCEPT !.state = (name :> value) @@ rest.state]

get_state_nofill(h, stack, dv, own, fill_value, settings) ==
    get_state_from(h, dv, get_matching_descriptors(h, stack, own, settings),
                   MISSING, 1)

get_state_allfields(h, stack, dv, own, fill_value, settings) ==
    get_state_from(h, dv, ClassM.order, fill_value, 1)

get_state(h, stack, dv, own, fill_value, settings) ==
    get_state_from(h, dv, get_matching_descriptors(h, stack, own, settings),
                   fill_value, 1)

-----------------------------------------------------------------------------
(* The record of a call's outcome *)

NoRet ==
    [op |-> "none", inst |-> "none", key |-> "none", value |-> MISSING,
     index |-> 0, settings |-> EmptyDict, fill |-> MISSING,
     result |-> MISSING, raised |-> NoError, field |-> "none",
     items |-> <<>>]

NoFrame ==
    [op |-> "none", stack |-> "none", component |-> None, index |-> 0,
     settings |-> EmptyDict, found |-> FALSE, idx |-> 0, obj |-> None,
     outer |-> "none"]

NoTret ==
    [thread |-> "none", op |-> "none", stack |-> "none", component |-> None,
     outside |-> FALSE, result |-> None, raised |-> NoError]

FreeLock == [owner |-> NoOwner, count |-> 0]

-----------------------------------------------------------------------------
(* The version predicate on its own: one stack holding one component whose  *)
(* version bounds are drawn at the start, queried under every context.      *)

VersionStack == "v"

\* the outcome of a call of plugin.py: the class it was called on, the class it
\* was given, the tuple it returned, the feature it was to construct
NoPret ==
    [op |-> "none", cls |-> "none", target |-> "none", result |-> <<>>,
     raised |-> NoError, func |-> "None", default |-> "None"]

IdlePluginVars ==
    /\ classes = EmptyDict
    /\ features = EmptyDict
    /\ feats = {}
    /\ pret = NoPret

IdleStackVars ==
    /\ lock = EmptyDict
    /\ live = EmptyDict
    /\ pc = EmptyDict
    /\ frame = EmptyDict
    /\ tret = NoTret

IdleModelVars ==
    /\ desc_value = EmptyDict
    /\ instances = EmptyDict

InitVersion ==
    /\ \E cs \in Dicts({"version_added", "version_removed"}, Versions) :
          heap = (1 :> Component("c", MISSING, cs, TRUE))
    /\ components = (VersionStack :> <<1>>)
    /\ ret = NoRet
    /\ IdleStackVars
    /\ IdleModelVars
    /\ IdlePluginVars

\* FilteredComponentStack.get(index, settings), the lock being free
Get(index, settings) ==
    /\ ret' = [NoRet EXCEPT !.op = "get", !.index = index, !.settings = settings,
                            !.result = FilteredGet(heap,
                                BaseGet(components[VersionStack], index), settings)]
    /\ UNCHANGED <<pluginVars, heap, components, stackVars, modelVars>>

\* ComponentStack.get_matching_components(settings)
Matching(settings) ==
    /\ ret' = [NoRet EXCEPT !.op = "get_matching_components", !.settings = settings,
                            !.result = get_matching_components(heap,
                                components[VersionStack], settings)]
    /\ UNCHANGED <<pluginVars, heap, components, stackVars, modelVars>>

NextVersion ==
    \/ \E index \in -2..1, settings \in Dicts({"version"}, Versions) :
          Get(index, settings)
    \/ \E settings \in Dicts({"version"}, Versions) : Matching(settings)

SpecVersion == InitVersion /\ [][NextVersion]_vars

\* the component of the version stack and its declared bounds
VComp == heap[1]
HasSince == "version_added" \in DOMAIN VComp.settings
HasUntil == "version_removed" \in DOMAIN VComp.settings
HasVersion == "version" \in DOMAIN ret.settings

\* s <= v <= u for the component's bounds s, u and the context's version v:
\* a missing s is unbounded-low, a missing u and a missing v unbounded-high
AppliesAt(component, settings) ==
    LET hasSince == "version_added" \in DOMAIN component.settings
        hasUntil == "version_removed" \in DOMAIN component.settings
        hasVersion == "version" \in DOMAIN settings
    IN /\ hasSince /\ hasVersion
            => component.settings["version_added"] <= settings["version"]
       /\ hasUntil /\ hasVersion
            => settings["version"] <= component.settings["version_removed"]
       /\ hasUntil => hasVersion

InRange == AppliesAt(VComp, ret.settings)

\* C1: the version-aware stack accepts a component exactly when
\* since_version <= version <= until_version, the bounds included; a missing
\* since is unbounded-low, a missing until or version is unbounded-high.
C1_VersionRange ==
    /\ (ret.op = "get" /\ ListInRange(components[VersionStack], ret.index))
          => ((ret.result = 1) <=> InRange)
    /\ ret.op = "get_matching_components"
          => (("c" \in DOMAIN ret.result) <=> InRange)

\* a query at the lower bound itself, which is accepted
C1_Witness ==
    /\ ret.op = "get" /\ ret.index = 0
    /\ HasSince /\ HasUntil /\ HasVersion
    /\ ret.settings["version"] = VComp.settings["version_added"]
    /\ ret.settings["version"] < VComp.settings["version_removed"]
    /\ ret.result = 1

-----------------------------------------------------------------------------
(* The Model class M and its instances *)

MaxItems == 2

Insts == {"a", "b"}
FieldKeys == {"id", "ident", "name", "other"}
Values == {"5", "x"}
FillValues == {MISSING, "f"}
VersionSettings == Dicts({"version"}, Versions)

\* state.items() of a mapping: up to MaxItems pairs with distinct keys
RECURSIVE ItemSeqs(_)
ItemSeqs(n) ==
    IF n = 0 THEN {<<>>}
    ELSE LET shorter == ItemSeqs(n - 1)
         IN shorter \cup
            {Append(s, [key |-> k, value |-> v]) :
                s \in {x \in shorter : Len(x) = n - 1},
                k \in FieldKeys, v \in Values}

DistinctKeys(items) ==
    \A i, j \in 1..Len(items) : items[i].key = items[j].key => i = j

Mappings == {s \in ItemSeqs(MaxItems) : DistinctKeys(s)}

\* a decoded sequence of values, up to one more than there are bindings
RECURSIVE ValueSeqs(_)
ValueSeqs(n) ==
    IF n = 0 THEN {<<>>}
    ELSE LET shorter == ValueSeqs(n - 1)
         IN shorter \cup
            {Append(s, v) : s \in {x \in shorter : Len(x) = n - 1}, v \in Values}

\* the keyword arguments of Model(...): a version or none, a field or none
InitKwargs ==
    {v @@ f : v \in VersionSettings,
              f \in {EmptyDict} \cup
                    {(k :> x) : k \in DOMAIN _descriptors, x \in Values}}

\* the class M compiled and the instances of `insts` not yet constructed
InitModel(insts) ==
    /\ heap = ClassM.heap
    /\ components = (ModelStack :> ClassM.stack)
    /\ desc_value = [d \in Descriptors |-> MISSING]
    /\ instances = [i \in insts |-> [made |-> FALSE, settings |-> EmptyDict]]
    /\ ret = NoRet
    /\ IdleStackVars
    /\ IdlePluginVars

Call(op, i) == [NoRet EXCEPT !.op = op, !.inst = i]

\* Model.__init__(**settings): a setting that names a field is written to it
\* and the others are the instance's settings
New(i, kwargs) ==
    LET fields == {k \in DOMAIN kwargs : k \in DOMAIN _descriptors}
        key == CHOOSE k \in fields : TRUE
    IN /\ ~instances[i].made
       /\ desc_value' = IF fields = {} THEN desc_value
                        ELSE Model_setitem(desc_value, i, key, kwargs[key]).dv
       /\ instances' = [instances EXCEPT ![i] =
              [made |-> TRUE,
               settings |-> [k \in DOMAIN kwargs \ fields |-> kwargs[k]]]]
       /\ ret' = [Call("__init__", i) EXCEPT !.settings = kwargs]
       /\ UNCHANGED <<pluginVars, heap, components, stackVars>>

\* instance[key] = value
SetItem(i, key, value) ==
    LET set == Model_setitem(desc_value, i, key, value)
    IN /\ instances[i].made
       /\ desc_value' = set.dv
       /\ ret' = [Call("__setitem__", i) EXCEPT
                     !.key = key, !.value = value, !.raised = set.raised]
       /\ UNCHANGED <<pluginVars, heap, components, stackVars, instances>>

\* instance[key]
GetItem(i, key) ==
    LET got == Model_getitem(desc_value, i, key)
    IN /\ instances[i].made
       /\ ret' = [Call("__getitem__", i) EXCEPT
                     !.key = key, !.result = got.value, !.raised = got.raised]
       /\ UNCHANGED <<pluginVars, heap, components, stackVars, modelVars>>

\* instance.<key> = value
SetAttr(i, key, value) ==
    /\ instances[i].made
    /\ desc_value' = Model_setattr(desc_value, i, key, value)
    /\ ret' = [Call("__setattr__", i) EXCEPT !.key = key, !.value = value]
    /\ UNCHANGED <<pluginVars, heap, components, stackVars, instances>>

\* instance.<key>
GetAttr(i, key) ==
    LET got == Model_getattr(desc_value, i, key)
    IN /\ instances[i].made
       /\ ret' = [Call("__getattr__", i) EXCEPT
                     !.key = key, !.result = got.value, !.raised = got.raised]
       /\ UNCHANGED <<pluginVars, heap, components, stackVars, modelVars>>

\* instance.get_state(fill_value, **settings)
GetState(i, fill_value, settings) ==
    LET got == get_state(heap, components[ModelStack], desc_value,
                         instances[i].settings, fill_value, settings)
    IN /\ instances[i].made
       /\ ret' = [Call("get_state", i) EXCEPT
                     !.fill = fill_value, !.settings = settings,
                     !.result = got.state, !.raised = got.raised,
                     !.field = got.field]
       /\ UNCHANGED <<pluginVars, heap, components, stackVars, modelVars>>

\* instance.set_state(state), state a mapping
SetState(i, items) ==
    LET set == set_state(desc_value, i, items)
    IN /\ instances[i].made
       /\ desc_value' = set.dv
       /\ ret' = [Call("set_state", i) EXCEPT !.items = items, !.raised = set.raised]
       /\ UNCHANGED <<pluginVars, heap, components, stackVars, instances>>

\* instance.load(driver_or_serializer, dump) once the serializer has decoded
\* the dump: load_state, then set_state
Load(i, load) ==
    LET items == IF load.kind = "mapping" THEN load.data
                 ELSE load_state_from_sequence(load.data)
        set == set_state(desc_value, i, items)
    IN /\ instances[i].made
       /\ desc_value' = IF load.kind = "other" THEN desc_value ELSE set.dv
       /\ ret' = [Call("load", i) EXCEPT
                     !.key = load.kind,
                     !.items = IF load.kind = "other" THEN <<>> ELSE items,
                     !.raised = IF load.kind = "other" THEN TypeError
                                ELSE set.raised]
       /\ UNCHANGED <<pluginVars, heap, components, stackVars, instances>>

Loads ==
    {[kind |-> "mapping", data |-> m] : m \in Mappings}
    \cup {[kind |-> "sequence", data |-> s] : s \in ValueSeqs(Len(ClassM.order) + 1)}
    \cup {[kind |-> "other", data |-> <<>>]}

\* One instance: its construction, get_state, set_state and load
Init == InitModel({"a"})

Next ==
    \/ \E i \in DOMAIN instances, kwargs \in InitKwargs : New(i, kwargs)
    \/ \E i \in DOMAIN instances, fill_value \in FillValues,
          settings \in VersionSettings : GetState(i, fill_value, settings)
    \/ \E i \in DOMAIN instances, items \in Mappings : SetState(i, items)
    \/ \E i \in DOMAIN instances, load \in Loads : Load(i, load)

Spec == Init /\ [][Next]_vars

\* Two instances of the class: reads and writes of single fields
InitAccess == InitModel(Insts)

NextAccess ==
    \/ \E i \in DOMAIN instances, kwargs \in InitKwargs : New(i, kwargs)
    \/ \E i \in DOMAIN instances, key \in FieldKeys, value \in Values :
          SetItem(i, key, value)
    \/ \E i \in DOMAIN instances, key \in FieldKeys : GetItem(i, key)
    \/ \E i \in DOMAIN instances, key \in DOMAIN ClassM.attrs \cup {"other"},
          value \in Values : SetAttr(i, key, value)
    \/ \E i \in DOMAIN instances, key \in DOMAIN ClassM.attrs : GetAttr(i, key)

SpecAccess == InitAccess /\ [][NextAccess]_vars

-----------------------------------------------------------------------------
(* Claims about the Model *)

\* the fields of M: one per primary binding, named as its component is
Fields == Descriptors
FieldComponent(d) == heap[ClassM.component[d]]
Unset(d) == desc_value[d] = MISSING /\ FieldComponent(d).default = MISSING

\* the names the call wrote through that resolve to field d, by position
Hits(items, d) ==
    {i \in 1..Len(items) :
        items[i].key \in DOMAIN _descriptors /\ _descriptors[items[i].key] = d}

Last(S) == CHOOSE i \in S : \A j \in S : j <= i

IsWrite(r) == r.op \in {"__setitem__", "__setattr__", "__init__"}

\* C2: a write of a field on one instance leaves what every other
\* constructed instance of the class reads for its fields as it was.
C2_InstanceScoped ==
    [][IsWrite(ret') =>
         \A j \in DOMAIN instances \ {ret'.inst}, k \in DOMAIN _descriptors :
            instances[j].made =>
               Model_getitem(desc_value', j, k) = Model_getitem(desc_value, j, k)]_vars

\* what get_state is to return for the context `settings`: the applicable
\* fields, each with its stored value or else its default
Applicable(settings) ==
    {d \in Fields : AppliesAt(FieldComponent(d), settings)}

Expected(settings) ==
    [d \in Applicable(settings) |->
        IF desc_value[d] # MISSING THEN desc_value[d]
        ELSE FieldComponent(d).default]

GetStateFor(settings) ==
    (ret.op = "get_state" /\ ret.fill = MISSING) =>
        IF \E d \in Applicable(settings) : Unset(d)
        THEN ret.raised = ValueError
        ELSE ret.raised = NoError /\ ret.result = Expected(settings)

\* C3 as stated: get_state(version=v) returns exactly the fields applicable
\* at the version v it is called with, each with its stored value or else its
\* default, and raises when such a field has neither.
C3_GetStateAtCallVersion == GetStateFor(ret.settings)

\* the context get_state filters by: the settings of the call, overridden by
\* the settings the instance was constructed with
Effective == DictMerge(ret.settings, instances[ret.inst].settings)

\* C3 (amended): get_state returns exactly the fields applicable at the
\* effective version (the instance's own version setting when it has one,
\* else the version of the call, else unbounded-high), each with the value
\* stored in its slot or else its default, and raises the missing-value error
\* when such a field has neither; so for an instance constructed without a
\* version, get_state(version=1) is {id: 0} while id is unset,
\* get_state(version=2) raises while name is unset, and get_state(version=2)
\* is {id: 5, name: x} once those are stored.
C3_GetState ==
    /\ ret.op = "get_state" => GetStateFor(Effective)
    /\ (/\ ret.op = "get_state" /\ ret.fill = MISSING
        /\ "version" \notin DOMAIN instances[ret.inst].settings)
       => /\ (ret.settings = ("version" :> 1) /\ desc_value["id"] = MISSING)
                => (ret.raised = NoError /\ ret.result = ("id" :> "0"))
          /\ (ret.settings = ("version" :> 2) /\ desc_value["name"] = MISSING)
                => (ret.raised = ValueError /\ ret.field = "name")
          /\ (ret.settings = ("version" :> 2)
                /\ desc_value = ("id" :> "5") @@ ("name" :> "x"))
                => (ret.raised = NoError
                    /\ ret.result = ("id" :> "5") @@ ("name" :> "x"))

\* set_state({id: 5, name: x}) was applied and get_state(version=2) returned it
C3_Witness ==
    /\ ret.op = "get_state" /\ ret.fill = MISSING
    /\ ret.settings = ("version" :> 2)
    /\ "version" \notin DOMAIN instances[ret.inst].settings
    /\ ret.result = ("id" :> "5") @@ ("name" :> "x")

\* C4: when an applicable field has no stored value and no default,
\* get_state without a fill value raises the missing-value error naming the
\* field, and get_state with fill value X returns X for it and raises nothing.
C4_MissingField ==
    (ret.op = "get_state" /\ \E d \in Applicable(Effective) : Unset(d)) =>
        IF ret.fill = MISSING
        THEN /\ ret.raised = ValueError
             /\ \E d \in Applicable(Effective) : Unset(d) /\ ret.field = d
        ELSE /\ ret.raised = NoError
             /\ \A d \in Applicable(Effective) : Unset(d) => ret.result[d] = ret.fill

\* a get_state that filled the unset field name with the fill value
C4_Witness ==
    /\ ret.op = "get_state" /\ ret.fill = "f"
    /\ Unset("name") /\ "name" \in DOMAIN ret.result
    /\ ret.result["name"] = "f"

\* an alias attribute of the class and the primary attribute it stands for
IsAlias(key) == key \in DOMAIN ClassM.attrs /\ ClassM.attrs[key].kind = "alias"
Primary(key) == ClassM.attrs[key].descriptor

\* C5: a read through an alias name returns what a read through its primary
\* name returns, the value last written through either.
C5_AliasObserves ==
    (ret.op = "__getattr__" /\ IsAlias(ret.key)) =>
        /\ ret.raised = NoError
        /\ ret.result = Model_getattr(desc_value, ret.inst, Primary(ret.key)).value

\* C6: set_state and load with a mapping (or a sequence) raise nothing,
\* whatever keys the mapping has; every field a key of the mapping names ends
\* with the value of the last such key, and every other field keeps its value.
C6_PermissiveLoad ==
    [][(ret'.op = "set_state" \/ (ret'.op = "load" /\ ret'.key # "other")) =>
         /\ ret'.raised = NoError
         /\ \A d \in Fields :
               IF Hits(ret'.items, d) = {}
               THEN desc_value'[d] = desc_value[d]
               ELSE desc_value'[d] = ret'.items[Last(Hits(ret'.items, d))].value]_vars

\* a set_state whose mapping has an unknown key before a known one: the known
\* key is applied and a field the mapping does not name keeps its value
C6_Witness ==
    /\ ret.op = "set_state" /\ ret.raised = NoError
    /\ Len(ret.items) = 2
    /\ ret.items[1].key = "other" /\ ret.items[2].key = "name"
    /\ desc_value["name"] = ret.items[2].value
    /\ desc_value["id"] = "5" /\ ret.items[2].value = "x"

-----------------------------------------------------------------------------
(* ComponentStack under threads: each line of an operation is a step *)

Threads == DOMAIN pc
Stacks == DOMAIN components
Objects == DOMAIN heap
\* the first place, the last place and a place past the end
Indices == {-1, 0, MaxLen}

\* the stack and threads as constructed (ComponentStack.__init__), with the
\* serializer instances 1..n created and owned by no stack
InitStacks(stacks, threads, n) ==
    /\ heap = [o \in 1..n |-> Component(NoName, MISSING, EmptyDict, FALSE)]
    /\ components = [s \in stacks |-> <<>>]
    /\ lock = [s \in stacks |-> FreeLock]
    /\ live = [s \in stacks |-> TRUE]
    /\ pc = [t \in threads |-> "idle"]
    /\ frame = [t \in threads |-> NoFrame]
    /\ tret = NoTret
    /\ ret = NoRet
    /\ IdleModelVars
    /\ IdlePluginVars

\* threading.RLock: free, or held by its owner count times
CanAcquire(t, s) == lock[s].count = 0 \/ lock[s].owner = t
Acquired(l, t) == [owner |-> t, count |-> l.count + 1]
Released(l) ==
    IF l.count = 1 THEN FreeLock ELSE [l EXCEPT !.count = l.count - 1]

\* a thread may start a call on a live stack; the count of a lock it was left
\* holding is capped
Ready(t, s) ==
    /\ pc[t] = "idle"
    /\ live[s]
    /\ lock[s].owner = t => lock[s].count < MaxHold

\* the calls under way that will lengthen the stack
Growing(s) ==
    {t \in Threads : frame[t].stack = s /\ pc[t] \in {"insert_81", "insert_82",
                                                      "push_96", "push_97"}}
Room(s) == Len(components[s]) + Cardinality(Growing(s)) < MaxLen

Enter(t, line, f) ==
    /\ pc' = [pc EXCEPT ![t] = line]
    /\ frame' = [frame EXCEPT ![t] = f]
    /\ UNCHANGED <<pluginVars, heap, components, lock, live, tret, ret, modelVars>>

\* the outermost call of thread t ends: it returns result or raises
Finish(t, result, raised, outside) ==
    LET f == frame[t]
        op == IF f.outer = "none" THEN f.op ELSE f.outer
    IN /\ pc' = [pc EXCEPT ![t] = "idle"]
       /\ frame' = [frame EXCEPT ![t] = NoFrame]
       /\ tret' = [thread |-> t, op |-> op, stack |-> f.stack,
                   component |-> IF op = "add" THEN f.obj ELSE f.component,
                   outside |-> outside, result |-> result, raised |-> raised]

\* stack.insert(idx, component)
CallInsert(t, s, idx, c) ==
    /\ Ready(t, s) /\ Room(s)
    /\ Enter(t, "insert_81",
             [NoFrame EXCEPT !.op = "insert", !.stack = s, !.index = idx,
                             !.component = c])

\* stack.discard(component)
CallDiscard(t, s, c) ==
    /\ Ready(t, s)
    /\ Enter(t, "discard_86",
             [NoFrame EXCEPT !.op = "discard", !.stack = s, !.component = c])

\* stack.push(component)
CallPush(t, s, c) ==
    /\ Ready(t, s) /\ Room(s)
    /\ Enter(t, "push_96",
             [NoFrame EXCEPT !.op = "push", !.stack = s, !.component = c])

\* stack.pop(index)
CallPop(t, s, index) ==
    /\ Ready(t, s)
    /\ Enter(t, "pop_101",
             [NoFrame EXCEPT !.op = "pop", !.stack = s, !.index = index])

\* stack.get(index, settings)
CallGet(t, s, index, settings) ==
    /\ Ready(t, s)
    /\ Enter(t, "get_107",
             [NoFrame EXCEPT !.op = "get", !.stack = s, !.index = index,
                             !.settings = settings])

\* stack.clear()
CallClear(t, s) ==
    /\ Ready(t, s)
    /\ Enter(t, "clear_116", [NoFrame EXCEPT !.op = "clear", !.stack = s])

\* stack.add(component): transform_component, then self.push(transformed)
CallAdd(t, s, arg) ==
    LET made == transform_component(heap, arg, EmptyDict, NoName)
    IN /\ Ready(t, s) /\ Room(s)
       /\ Allocates(heap, arg) => Fresh(heap) <= MaxObjects
       /\ heap' = made.heap
       /\ pc' = [pc EXCEPT ![t] = "push_96"]
       /\ frame' = [frame EXCEPT ![t] =
              [NoFrame EXCEPT !.op = "push", !.stack = s, !.component = made.obj,
                              !.obj = arg.obj, !.outer = "add"]]
       /\ UNCHANGED <<pluginVars, components, lock, live, tret, ret, modelVars>>

AcquireLines ==
    {"insert_81", "discard_86", "push_96", "pop_101", "get_107", "clear_116"}

AfterAcquire(line) ==
    CASE line = "insert_81" -> "insert_82"
      [] line = "discard_86" -> "discard_88"
      [] line = "push_96" -> "push_97"
      [] line = "pop_101" -> "pop_102"
      [] line = "get_107" -> "get_109"
      [] line = "clear_116" -> "clear_117"

\* self._lock.acquire(): the thread waits while another thread holds the lock
Acquire(t) ==
    /\ pc[t] \in AcquireLines
    /\ CanAcquire(t, frame[t].stack)
    /\ lock' = [lock EXCEPT ![frame[t].stack] = Acquired(lock[frame[t].stack], t)]
    /\ pc' = [pc EXCEPT ![t] = AfterAcquire(pc[t])]
    /\ UNCHANGED <<pluginVars, heap, components, live, frame, tret, ret, modelVars>>

\* self._components.insert(idx, component)
InsertBody(t) ==
    LET f == frame[t]
    IN /\ pc[t] = "insert_82"
       /\ components' = [components EXCEPT ![f.stack] =
              ListInsert(components[f.stack], f.index, f.component)]
       /\ pc' = [pc EXCEPT ![t] = "insert_83"]
       /\ UNCHANGED <<pluginVars, heap, lock, live, frame, tret, ret, modelVars>>

\* self._components.append(component)
PushBody(t) ==
    LET f == frame[t]
    IN /\ pc[t] = "push_97"
       /\ components' = [components EXCEPT ![f.stack] =
              Append(components[f.stack], f.component)]
       /\ pc' = [pc EXCEPT ![t] = "push_98"]
       /\ UNCHANGED <<pluginVars, heap, lock, live, frame, tret, ret, modelVars>>

\* obj = self._components.pop(index); an IndexError leaves the method, and
\* the lock held
PopBody(t) ==
    LET f == frame[t]
        seq == components[f.stack]
    IN /\ pc[t] = "pop_102"
       /\ IF ListInRange(seq, f.index)
          THEN /\ components' = [components EXCEPT ![f.stack] =
                      ListRemove(seq, f.index)]
               /\ frame' = [frame EXCEPT ![t].obj = seq[ListPos(seq, f.index)]]
               /\ pc' = [pc EXCEPT ![t] = "pop_103"]
               /\ UNCHANGED tret
          ELSE /\ Finish(t, None, IndexError, TRUE)
               /\ UNCHANGED components
       /\ UNCHANGED <<pluginVars, heap, lock, live, ret, modelVars>>

\* obj = self._components[index], None on an IndexError
GetBody(t) ==
    LET f == frame[t]
    IN /\ pc[t] = "get_109"
       /\ frame' = [frame EXCEPT ![t].obj = BaseGet(components[f.stack], f.index),
                                 ![t].found = ListInRange(components[f.stack], f.index)]
       /\ pc' = [pc EXCEPT ![t] = "get_112"]
       /\ UNCHANGED <<pluginVars, heap, components, lock, live, tret, ret, modelVars>>

\* self._components.clear()
ClearBody(t) ==
    /\ pc[t] = "clear_117"
    /\ components' = [components EXCEPT ![frame[t].stack] = <<>>]
    /\ pc' = [pc EXCEPT ![t] = "clear_118"]
    /\ UNCHANGED <<pluginVars, heap, lock, live, frame, tret, ret, modelVars>>

\* idx = self._components.index(component); the ValueError of a component
\* that is not in the list is not the IndexError caught: it leaves the
\* method, and the lock held
DiscardIndex(t) ==
    LET f == frame[t]
        seq == components[f.stack]
    IN /\ pc[t] = "discard_88"
       /\ IF ListHas(seq, f.component)
          THEN /\ frame' = [frame EXCEPT ![t].found = TRUE,
                                         ![t].idx = ListIndex(seq, f.component)]
               /\ pc' = [pc EXCEPT ![t] = "discard_91"]
               /\ UNCHANGED tret
          ELSE Finish(t, None, ValueError, TRUE)
       /\ UNCHANGED <<pluginVars, heap, components, lock, live, ret, modelVars>>

\* self._lock.release() of discard, then self.pop(idx)
DiscardRelease(t) ==
    LET f == frame[t]
    IN /\ pc[t] = "discard_91"
       /\ lock' = [lock EXCEPT ![f.stack] = Released(lock[f.stack])]
       /\ frame' = [frame EXCEPT ![t] =
              [f EXCEPT !.op = "pop", !.index = f.idx, !.outer = "discard"]]
       /\ pc' = [pc EXCEPT ![t] = "pop_101"]
       /\ UNCHANGED <<pluginVars, heap, components, live, tret, ret, modelVars>>

ReleaseLines == {"insert_83", "push_98", "pop_103", "get_112", "clear_118"}

\* self._lock.release() and the return: of pop, the object removed; of get,
\* the object if the predicate accepts it; of add, the transformed component
Release(t) ==
    LET f == frame[t]
        result ==
            CASE pc[t] = "pop_103" -> f.obj
              [] pc[t] = "get_112" -> FilteredGet(heap, f.obj, f.settings)
              [] pc[t] = "push_98" /\ f.outer = "add" -> f.component
              [] OTHER -> None
    IN /\ pc[t] \in ReleaseLines
       /\ lock' = [lock EXCEPT ![f.stack] = Released(lock[f.stack])]
       /\ Finish(t, result, NoError, pc[t] = "get_112" /\ ~f.found)
       /\ UNCHANGED <<pluginVars, heap, components, live, ret, modelVars>>

\* ComponentStack.__del__, once no call on the stack is under way
Del(s) ==
    /\ live[s]
    /\ \A t \in Threads : frame[t].stack # s
    /\ heap' = [o \in Objects |->
                  IF ListHas(components[s], o)
                  THEN [heap[o] EXCEPT !.taken = FALSE] ELSE heap[o]]
    /\ components' = [components EXCEPT ![s] = <<>>]
    /\ live' = [live EXCEPT ![s] = FALSE]
    /\ UNCHANGED <<pluginVars, lock, pc, frame, tret, ret, modelVars>>

\* ComponentStack.__init__: a new stack in the place of a destroyed one
Construct(s) ==
    /\ ~live[s]
    /\ components' = [components EXCEPT ![s] = <<>>]
    /\ lock' = [lock EXCEPT ![s] = FreeLock]
    /\ live' = [live EXCEPT ![s] = TRUE]
    /\ UNCHANGED <<pluginVars, heap, pc, frame, tret, ret, modelVars>>

Step(t) ==
    \/ Acquire(t)
    \/ InsertBody(t)
    \/ PushBody(t)
    \/ PopBody(t)
    \/ GetBody(t)
    \/ ClearBody(t)
    \/ DiscardIndex(t)
    \/ DiscardRelease(t)
    \/ Release(t)

AddArgs ==
    {[kind |-> "instance", obj |-> o] : o \in Objects}
    \cup {[kind |-> "type", obj |-> None]}

\* Two stacks and one thread: ownership of the components added
InitStack == InitStacks({"s1", "s2"}, {"t1"}, 1)

NextStack ==
    \/ \E t \in Threads, s \in Stacks, arg \in AddArgs : CallAdd(t, s, arg)
    \/ \E t \in Threads, s \in Stacks, index \in Indices : CallPop(t, s, index)
    \/ \E t \in Threads, s \in Stacks, c \in Objects : CallDiscard(t, s, c)
    \/ \E t \in Threads : Step(t)
    \/ \E s \in Stacks : Del(s)
    \/ \E s \in Stacks : Construct(s)

SpecStack == InitStack /\ [][NextStack]_vars

\* One stack and two threads: the operations interleaved
InitThreads == InitStacks({"s1"}, {"t1", "t2"}, 2)

NextThreads ==
    \/ \E t \in Threads, s \in Stacks, c \in Objects : CallPush(t, s, c)
    \/ \E t \in Threads, s \in Stacks, idx \in Indices, c \in Objects :
          CallInsert(t, s, idx, c)
    \/ \E t \in Threads, s \in Stacks, index \in Indices : CallPop(t, s, index)
    \/ \E t \in Threads, s \in Stacks, c \in Objects : CallDiscard(t, s, c)
    \/ \E t \in Threads, s \in Stacks, index \in Indices :
          CallGet(t, s, index, EmptyDict)
    \/ \E t \in Threads, s \in Stacks : CallClear(t, s)
    \/ \E t \in Threads : Step(t)

SpecThreads == InitThreads /\ [][NextThreads]_vars

-----------------------------------------------------------------------------
(* Claims about the component stack *)

Idle == \A t \in Threads : pc[t] = "idle"

\* the live stacks the object is a member of
Owners(o) == {s \in Stacks : live[s] /\ ListHas(components[s], o)}

\* C7: add of a component that another live stack owns raises or adds an
\* independent duplicate, so no component is a member of two live stacks.
C7_OwnedAddRejected ==
    /\ \A o \in Objects : Cardinality(Owners(o)) <= 1
    /\ (tret.op = "add" /\ Owners(tret.component) \ {tret.stack} # {})
          => (tret.raised # NoError \/ tret.result # tret.component)

\* C8: pop and get with an index outside the stack raise nothing and report
\* absent.
C8_OutsideIsAbsent ==
    (tret.op \in {"pop", "get"} /\ tret.outside)
        => (tret.raised = NoError /\ tret.result = None)

\* C9: a discard(c) that other threads' calls interleave with acts as one
\* step: the component it removes is c and no other.
C9_DiscardAtomic ==
    (tret.op = "discard" /\ tret.raised = NoError)
        => tret.result = tret.component

\* C10: a component is marked owned only while it is a member of a live
\* stack: once pop or discard has removed it, it is not.
C10_OwnedOnlyWhileMember ==
    Idle => \A o \in Objects : heap[o].taken => Owners(o) # {}

\* C13: a thread that is in no stack operation, whether its last one returned
\* or failed, holds the lock of no stack, so the lock is free for the
\* operations other threads invoke.
C13_LockReleasedOnExit ==
    \A t \in Threads, s \in Stacks : pc[t] = "idle" => lock[s].owner # t

\* a thread waits at an acquire for a lock that an idle thread holds
WaitsOnIdleHolder ==
    \E t, u \in Threads :
        /\ pc[t] \in AcquireLines /\ pc[u] = "idle"
        /\ lock[frame[t].stack].owner = u

-----------------------------------------------------------------------------
(* plugin.py: capability classes, their features and get_plugins.  A class  *)
(* is [kind, bases, attrs, has_total, total]: attrs is the class body,      *)
(* has_total says whether the class has a total_dependents of its own, and  *)
(* an attribute a class does not have is looked up along its bases.         *)

PluginRoot == "Plugin"
PlainBase == "Base"
SerializerName == "S"
\* the names capability classes are declared under, in the order of declaration
PluginNames == <<"A", "B", "C">>
\* a serializer type names at most this many bases
MaxBases == 2
FeatureAttrs == {"x"}

\* what a class body binds a name to: a feature, or something else
Independent == [feature |-> TRUE, dependent |-> FALSE, disabled |-> FALSE]
Dependent == [feature |-> TRUE, dependent |-> TRUE, disabled |-> FALSE]
DisabledDependent == [feature |-> TRUE, dependent |-> TRUE, disabled |-> TRUE]
NotFeature == [feature |-> FALSE, dependent |-> FALSE, disabled |-> FALSE]
AttrValues == {Independent, Dependent, DisabledDependent, NotFeature}

Class(kind, bases, attrs) ==
    [kind |-> kind, bases |-> bases, attrs |-> attrs,
     has_total |-> FALSE, total |-> 0]

\* class Plugin: total_dependents = 0, and no feature in its body
PluginClass == [Class("root", <<>>, EmptyDict) EXCEPT !.has_total = TRUE]

\* issubclass(c, d)
RECURSIVE IsSubclass(_, _, _)
IsSubclass(cm, c, d) ==
    \/ c = d
    \/ \E i \in 1..Len(cm[c].bases) : IsSubclass(cm, cm[c].bases[i], d)

\* cls.__subclasses__(): the classes that name cls among their bases
Subclasses(cm, cls) == {c \in DOMAIN cm : ListHas(cm[c].bases, cls)}

\* Plugin._feature_predicate(obj)
_feature_predicate(obj) == obj.feature /\ ~obj.disabled

\* the attributes of a class, its own before those of its bases, an earlier
\* base before a later one
RECURSIVE ClassDict(_, _)
RECURSIVE BasesDict(_, _, _)
ClassDict(cm, c) == DictMerge(BasesDict(cm, cm[c].bases, 1), cm[c].attrs)
BasesDict(cm, bases, i) ==
    IF i > Len(bases) THEN EmptyDict
    ELSE DictMerge(BasesDict(cm, bases, i + 1), ClassDict(cm, bases[i]))

\* inspect.getmembers(cls, predicate=cls._feature_predicate)
getmembers(cm, c) ==
    LET all == ClassDict(cm, c)
    IN [a \in {k \in DOMAIN all : _feature_predicate(all[k])} |-> all[a]]

\* cls.total_dependents: the class's own, or that of the first base, which for
\* every class that descends from Plugin descends from Plugin too
RECURSIVE total_dependents(_, _)
total_dependents(cm, c) ==
    IF cm[c].has_total THEN cm[c].total
    ELSE total_dependents(cm, cm[c].bases[1])

\* Plugin.__init_subclass__ on the new class c: [classes, features]
Plugin_init_subclass(cm, table, c) ==
    LET members == getmembers(cm, c)
        dependent == {a \in DOMAIN members : members[a].dependent}
    IN [classes |-> IF DOMAIN members = {} THEN cm
                    ELSE [cm EXCEPT ![c].has_total = TRUE,
                                    ![c].total = Cardinality(dependent)],
        features |-> DictMerge(table, members)]

\* sorted(seq, key=operator.attrgetter('total_dependents')) with the key
\* ascending; sorted is stable
RECURSIVE sorted(_, _)
sorted(cm, seq) ==
    IF seq = <<>> THEN <<>>
    ELSE LET rest == sorted(cm, Tail(seq))
             k == total_dependents(cm, Head(seq))
             n == Cardinality({i \in 1..Len(rest) :
                                  total_dependents(cm, rest[i]) < k})
         IN SubSeq(rest, 1, n) \o <<Head(seq)>> \o SubSeq(rest, n + 1, Len(rest))

\* Plugin.get_plugins(serializer_class), called on the class cls
get_plugins(cm, cls, serializer_class) ==
    sorted(cm, SelectSeq(cm[serializer_class].bases,
                         LAMBDA base : base \in Subclasses(cm, cls)))

\* the capability classes declared so far
Capabilities == {c \in DOMAIN classes : classes[c].kind = "plugin"}

\* sequences of distinct classes among S, none an ancestor of a later one
\* (Python refuses bases it cannot linearise)
BaseLists(S) ==
    {s \in UNION {[1..n -> S] : n \in 1..MaxBases} :
        /\ \A i, j \in DOMAIN s : s[i] = s[j] => i = j
        /\ \A i, j \in DOMAIN s :
              i < j => ~IsSubclass(classes, s[j], s[i])}

\* the bases of a capability class: Plugin, another capability, or both
PluginBases ==
    {<<PluginRoot>>} \cup {<<c>> : c \in Capabilities}
                     \cup {<<c, PluginRoot>> : c \in Capabilities}

InitPlugins ==
    /\ classes = (PluginRoot :> PluginClass)
                     @@ (PlainBase :> Class("plain", <<>>, EmptyDict))
    /\ features = EmptyDict
    /\ feats = {}
    /\ pret = NoPret
    /\ heap = EmptyDict
    /\ components = EmptyDict
    /\ ret = NoRet
    /\ IdleStackVars
    /\ IdleModelVars

\* the class statement: the class is created, then Plugin.__init_subclass__
\* runs on it when it descends from Plugin
Declare(name, kind, bases, attrs) ==
    LET made == classes @@ (name :> Class(kind, bases, attrs))
        reg == IF IsSubclass(made, name, PluginRoot)
               THEN Plugin_init_subclass(made, features, name)
               ELSE [classes |-> made, features |-> features]
    IN /\ name \notin DOMAIN classes
       /\ classes' = reg.classes
       /\ features' = reg.features
       /\ pret' = [NoPret EXCEPT !.op = "class", !.target = name]
       /\ UNCHANGED <<feats, heap, components, ret, stackVars, modelVars>>

\* class <name>(<bases>): <attrs>, a capability
DeclarePlugin(name, bases, attrs) == Declare(name, "plugin", bases, attrs)

\* class S(<bases>), a serializer type
DeclareSerializer(bases) == Declare(SerializerName, "serializer", bases, EmptyDict)

\* cls.get_plugins(S)
GetPlugins(cls) ==
    /\ SerializerName \in DOMAIN classes
    /\ pret' = [NoPret EXCEPT !.op = "get_plugins", !.cls = cls,
                              !.target = SerializerName,
                              !.result = get_plugins(classes, cls, SerializerName)]
    /\ UNCHANGED <<classes, features, feats, heap, components, ret,
                   stackVars, modelVars>>

NextPlugins ==
    \/ \E bases \in PluginBases, attrs \in Dicts(FeatureAttrs, AttrValues) :
          /\ Cardinality(Capabilities) < Len(PluginNames)
          /\ DeclarePlugin(PluginNames[Cardinality(Capabilities) + 1], bases, attrs)
    \/ \E bases \in BaseLists(Capabilities \cup {PlainBase}) :
          DeclareSerializer(bases)
    \/ \E cls \in Capabilities \cup {PluginRoot} : GetPlugins(cls)

SpecPlugins == InitPlugins /\ [][NextPlugins]_vars

\* the capability types registered with Plugin, the class get_plugins is
\* called on
Registered == {c \in Capabilities : ListHas(classes[c].bases, PluginRoot)}

\* the dependent features a capability type has
DependentCount(c) ==
    LET members == getmembers(classes, c)
    IN Cardinality({a \in DOMAIN members : members[a].dependent})

\* C11: Plugin.get_plugins(S) returns exactly the bases of S that are
\* registered capability types, each once, a capability with fewer dependent
\* features before one with more, whatever the order of the bases.
C11_PluginOrder ==
    (pret.op = "get_plugins" /\ pret.cls = PluginRoot) =>
        LET r == pret.result
            bases == classes[pret.target].bases
        IN /\ {r[i] : i \in DOMAIN r} = {b \in Registered : ListHas(bases, b)}
           /\ \A i, j \in DOMAIN r : r[i] = r[j] => i = j
           /\ \A i, j \in DOMAIN r :
                 i < j => DependentCount(r[i]) <= DependentCount(r[j])

-----------------------------------------------------------------------------
(* plugin.py: the construction of features.  A Python value is written as   *)
(* its text: "None" is None, "0" the integer 0, "5" the integer 5, and "f"  *)
(* a function.                                                              *)

MaxFeats == 2

Funcs == {"None", "f"}
Defaults == {"None", "0", "5"}

\* bool(value)
Truthy(value) == value \notin {"None", "0"}

\* _Feature.__post_init__
post_init(self) ==
    IF Truthy(self.func) /\ Truthy(self.default) THEN ValueError ELSE NoError

\* _Feature(func, default, disabled=..., dependent=...): the dataclass sets
\* the fields, then __post_init__ runs; the object exists when it raises
\* nothing
Construct_Feature(op, func, default, disabled, dependent) ==
    LET self == [func |-> func, default |-> default,
                 disabled |-> disabled, dependent |-> dependent]
        raised == post_init(self)
    IN /\ Cardinality(feats) < MaxFeats
       /\ feats' = IF raised = NoError THEN feats \cup {self} ELSE feats
       /\ pret' = [NoPret EXCEPT !.op = op, !.func = func, !.default = default,
                                 !.raised = raised]
       /\ UNCHANGED <<classes, features, heap, components, ret,
                      stackVars, modelVars>>

\* _Feature(func, default, disabled, dependent)
NewFeature(func, default, disabled, dependent) ==
    Construct_Feature("_Feature", func, default, disabled, dependent)

\* default(value)
Default(value) == Construct_Feature("default", "None", value, FALSE, FALSE)

\* feature_or_hook(func, default=..., dependent=...): with no func, a partial
\* application that constructs nothing
FeatureOrHook(func, default, dependent) ==
    IF func = "None"
    THEN /\ pret' = [NoPret EXCEPT !.op = "partial", !.default = default]
         /\ UNCHANGED <<classes, features, feats, heap, components, ret,
                        stackVars, modelVars>>
    ELSE Construct_Feature("feature_or_hook", func, default, FALSE, dependent)

InitFeature ==
    /\ classes = EmptyDict
    /\ features = EmptyDict
    /\ feats = {}
    /\ pret = NoPret
    /\ heap = EmptyDict
    /\ components = EmptyDict
    /\ ret = NoRet
    /\ IdleStackVars
    /\ IdleModelVars

NextFeature ==
    \/ \E func \in Funcs, default \in Defaults, disabled, dependent \in BOOLEAN :
          NewFeature(func, default, disabled, dependent)
    \/ \E value \in Defaults : Default(value)
    \/ \E func \in Funcs, default \in Defaults, dependent \in BOOLEAN :
          FeatureOrHook(func, default, dependent)

SpecFeature == InitFeature /\ [][NextFeature]_vars

\* the feature was given a hook, and a constant default was supplied
HasBoth(o) == o.func # "None" /\ o.default # "None"

\* C12: constructing a feature with both a hook and a supplied default raises
\* the construction error, and no feature that exists carries both.
C12_HookOrDefault ==
    /\ \A o \in feats : ~HasBoth(o)
    /\ (pret.op \in {"_Feature", "feature_or_hook"} /\ HasBoth(pret))
          => pret.raised = ValueError

=============================================================================
